---- MODULE Spec2Model ----
(***************************************************************************)
(* Self-avoiding walk on an N x N lattice: the classes SAW and SAWEarly of *)
(* Models.py.  Constructing an instance runs _evolution to completion; the *)
(* model follows one construction, one _evolution iteration per step.      *)
(***************************************************************************)
EXTENDS Integers, Sequences, FiniteSets, TLC

\* Largest lattice size N explored.
MaxN == 3

\* Resolution of the real interval [0,1]: terminate_probability is t/Scale
\* for t in 0..Scale, a draw of np.random.uniform() is u/Scale for
\* u in 0..Scale-1 (the draw is in [0,1)).
Scale == 2

\* Python's None: what _walk returns for i == len(matrix) or j == len(matrix),
\* and the value of a name that has not been bound yet.
None == -9

VARIABLES
  variant,                \* "SAW" or "SAWEarly": the class being constructed
  N,                      \* len(self.grid)
  terminate_probability,  \* self.terminate_probability, in units of 1/Scale
  grid,                   \* self.grid
  k,                      \* self.k, the log of possible walks
  x,                      \* self.x
  y,                      \* self.y
  n_steps,                \* local n_steps of _evolution
  colide,                 \* local colide of _evolution
  n_walks,                \* self.n_walks, None until _evolution has returned
  pc,                     \* "first", "loop", "done" or "raised"
  err,                    \* the exception that left the constructor, or "none"
  u,                      \* last value of np.random.uniform(), None before any draw
  attempts,               \* number of self.k.append calls so far
  ref                     \* a SAW instance driven by the same move selections

config == <<variant, N, terminate_probability>>
walker == <<grid, k, x, y, n_steps, colide, n_walks, pc, err, u, attempts>>
vars == <<config, walker, ref>>

\* The instance under construction, fields and _evolution locals together.
Self ==
  [grid |-> grid, k |-> k, x |-> x, y |-> y, n_steps |-> n_steps,
   colide |-> colide, n_walks |-> n_walks, pc |-> pc, err |-> err,
   u |-> u, attempts |-> attempts]

Assign(s) ==
  /\ grid' = s.grid
  /\ k' = s.k
  /\ x' = s.x
  /\ y' = s.y
  /\ n_steps' = s.n_steps
  /\ colide' = s.colide
  /\ n_walks' = s.n_walks
  /\ pc' = s.pc
  /\ err' = s.err
  /\ u' = s.u
  /\ attempts' = s.attempts

-----------------------------------------------------------------------------
(* numpy indexing of an N x N array *)

\* An index numpy accepts on an axis of length N; any other raises IndexError.
InRange(idx) == idx >= -N /\ idx < N

\* A negative index counts from the end of the axis.
Wrap(idx) == IF idx < 0 THEN idx + N ELSE idx

Cell(matrix, indexes) == matrix[<<Wrap(indexes[1]), Wrap(indexes[2])>>]

\* np.zeros((N,N))
NewGrid(n) == [p \in (0..(n-1)) \X (0..(n-1)) |-> 0]

-----------------------------------------------------------------------------
(* SAW._check_walks *)

\* The dict {1:(i,j-1), 2:(i,j+1), 3:(i-1,j), 4:(i+1,j)}.
Targets(i, j) ==
  [d \in 1..4 |-> CASE d = 1 -> <<i, j-1>>
                    [] d = 2 -> <<i, j+1>>
                    [] d = 3 -> <<i-1, j>>
                    [] d = 4 -> <<i+1, j>>]

\* Impossible, were the cell's value not looked at.
Impossible_IgnoresCell(matrix, indexes) ==
  IF InRange(indexes[1]) /\ InRange(indexes[2])
  THEN indexes[1] < 0 \/ indexes[2] < 0
  ELSE TRUE

\* Impossible, were negative indexes left to numpy's wrap-around.
Impossible_NoSignTest(matrix, indexes) ==
  IF InRange(indexes[1]) /\ InRange(indexes[2])
  THEN Cell(matrix, indexes) # 0
  ELSE TRUE

\* Impossible, were only the row index tested for its sign.
Impossible_RowSignOnly(matrix, indexes) ==
  IF InRange(indexes[1]) /\ InRange(indexes[2])
  THEN Cell(matrix, indexes) # 0 \/ indexes[1] < 0
  ELSE TRUE

\* The test that puts a key in impossible_walks; the except branch is the
\* IndexError of matrix[indexes].
Impossible(matrix, indexes) ==
  IF InRange(indexes[1]) /\ InRange(indexes[2])
  THEN Cell(matrix, indexes) # 0 \/ indexes[1] < 0 \/ indexes[2] < 0
  ELSE TRUE

\* list(possible_walks.keys()): the directions left, in the order 1,2,3,4.
check_walks(matrix, i, j) ==
  SelectSeq(<<1, 2, 3, 4>>, LAMBDA d : ~Impossible(matrix, Targets(i, j)[d]))

\* list(possible_walks.values())
check_values(matrix, i, j) ==
  LET keys == check_walks(matrix, i, j)
  IN [t \in 1..Len(keys) |-> Targets(i, j)[keys[t]]]

-----------------------------------------------------------------------------
(* SAW._choose_uniformly *)

\* The values index can take: 0, or randint(0, n) when n > 1.
choose_indexes(xs) == IF Len(xs) > 1 THEN 0..(Len(xs) - 1) ELSE {0}

\* x[index]; an empty x raises IndexError, which the callers below test first.
choose_uniformly(xs, index) == xs[index + 1]

-----------------------------------------------------------------------------
(* SAW._walk *)

\* The returned pair.
walk_to(i, j, direction) ==
  IF i = N \/ j = N THEN <<None, None>>
  ELSE CASE direction = 1 -> <<i, j-1>>
         [] direction = 2 -> <<i, j+1>>
         [] direction = 3 -> <<i-1, j>>
         [] direction = 4 -> <<i+1, j>>

\* walk_matrix, were the cell the walker arrives at tagged.
walk_matrix_TagsArrival(matrix, i, j, direction) ==
  IF i = N \/ j = N THEN matrix
  ELSE LET to == walk_to(i, j, direction)
       IN IF <<Wrap(to[1]), Wrap(to[2])>> \in DOMAIN matrix
          THEN [matrix EXCEPT ![<<Wrap(to[1]), Wrap(to[2])>>] = direction]
          ELSE matrix

\* walk_matrix, were a visited flag written in place of the direction.
walk_matrix_Flag(matrix, i, j, direction) ==
  IF i = N \/ j = N THEN matrix
  ELSE [matrix EXCEPT ![<<Wrap(i), Wrap(j)>>] = 1]

\* The matrix after the call: matrix[i,j] = direction, unless the first
\* branch returned early.  _walk is only called with a direction out of a
\* non-empty check_walks, so i and j are in -1..N and the write is in range.
walk_matrix(matrix, i, j, direction) ==
  IF i = N \/ j = N THEN matrix
  ELSE [matrix EXCEPT ![<<Wrap(i), Wrap(j)>>] = direction]

-----------------------------------------------------------------------------
(* SAW._evolution *)

\* The locals i, j: the last position appended to self.x, self.y.
Last(s) == <<s.x[Len(s.x)], s.y[Len(s.y)]>>

\* Step, were the step not counted.
Step_NoCount(s, i, j, direction) ==
  LET to == walk_to(i, j, direction)
  IN [s EXCEPT !.grid = walk_matrix(s.grid, i, j, direction),
               !.x = Append(s.x, to[1]),
               !.y = Append(s.y, to[2])]

\* One chosen direction applied: _walk, the two appends, n_steps += 1.
Step(s, i, j, direction) ==
  LET to == walk_to(i, j, direction)
  IN [s EXCEPT !.grid = walk_matrix(s.grid, i, j, direction),
               !.x = Append(s.x, to[1]),
               !.y = Append(s.y, to[2]),
               !.n_steps = s.n_steps + 1]

Raise(s, e) == [s EXCEPT !.pc = "raised", !.err = e]

\* self.k.pop(-1)
Pop(s) == [s EXCEPT !.k = SubSeq(s.k, 1, Len(s.k) - 1)]

\* Log, were the directions left after the selection counted.
Log_Remaining(s, possible_walks) ==
  [s EXCEPT !.k = Append(s.k, Len(possible_walks) - 1),
            !.attempts = s.attempts + 1]

\* self.k.append(len(possible_walks))
Log(s, possible_walks) ==
  [s EXCEPT !.k = Append(s.k, Len(possible_walks)), !.attempts = s.attempts + 1]

\* SAW_first, were the first walk given the loop's collision test.
SAW_first_StopsOnZero(s, index) ==
  LET possible_walks == check_walks(s.grid, s.x[1], s.y[1])
      s1 == Log(s, possible_walks)
  IN IF Len(possible_walks) = 0
     THEN [Pop(s1) EXCEPT !.colide = TRUE, !.pc = "loop"]
     ELSE [Step(s1, s.x[1], s.y[1], choose_uniformly(possible_walks, index))
             EXCEPT !.pc = "loop"]

\* Lines 43-54: the first walk.
SAW_first(s, index) ==
  LET possible_walks == check_walks(s.grid, s.x[1], s.y[1])
      s1 == Log(s, possible_walks)
  IN IF Len(possible_walks) = 0
     THEN Raise(s1, "IndexError")
     ELSE [Step(s1, s.x[1], s.y[1], choose_uniformly(possible_walks, index))
             EXCEPT !.pc = "loop"]

\* SAW_loop, were a single remaining direction counted as a collision.
SAW_loop_StopsAtOne(s, index) ==
  LET i == Last(s)[1]
      j == Last(s)[2]
  IN IF i = None
     THEN Raise(s, "TypeError")
     ELSE LET possible_walks == check_walks(s.grid, i, j)
              s1 == Log(s, possible_walks)
          IN IF Len(possible_walks) <= 1
             THEN [Pop(s1) EXCEPT !.colide = TRUE]
             ELSE Step(s1, i, j, choose_uniformly(possible_walks, index))

\* Lines 57-79: one iteration of the while loop.
SAW_loop(s, index) ==
  LET i == Last(s)[1]
      j == Last(s)[2]
  IN IF i = None
     THEN Raise(s, "TypeError")
     ELSE LET possible_walks == check_walks(s.grid, i, j)
              s1 == Log(s, possible_walks)
          IN IF Len(possible_walks) = 0
             THEN [Pop(s1) EXCEPT !.colide = TRUE]
             ELSE Step(s1, i, j, choose_uniformly(possible_walks, index))

\* Line 85 and line 21: return n_steps, bound to self.n_walks.
Returned(s) == [s EXCEPT !.n_walks = s.n_steps, !.pc = "done"]

-----------------------------------------------------------------------------
(* SAW.trial_probability, over exact fractions <<numerator, denominator>> *)

RECURSIVE GCD(_, _)
GCD(a, b) == IF b = 0 THEN a ELSE GCD(b, a % b)

\* The fraction n/d in lowest terms.
Frac(n, d) == LET g == GCD(n, d) IN <<n \div g, d \div g>>

Times(p, q) == Frac(p[1] * q[1], p[2] * q[2])

\* 1/np.array(self.k)
Reciprocals(ks) == [t \in 1..Len(ks) |-> Frac(1, ks[t])]

RECURSIVE CumProdAt(_, _)
CumProdAt(fs, t) == IF t = 1 THEN fs[1] ELSE Times(CumProdAt(fs, t - 1), fs[t])

\* ndarray.cumprod()
cumprod(fs) == [t \in 1..Len(fs) |-> CumProdAt(fs, t)]

\* trial_probability, were the first cumulative value returned (g[0]).
trial_probability_First(ks) ==
  LET g == cumprod(Reciprocals(ks)) IN g[1]

\* Lines 99-100: g[-1] of the cumulative product; read on a non-empty log
\* without zeros.
trial_probability(ks) ==
  LET g == cumprod(Reciprocals(ks)) IN g[Len(g)]

-----------------------------------------------------------------------------
(* SAWEarly._evolution *)

\* Terminates, were the comparison not strict.
Terminates_NotStrict(draw) == draw <= terminate_probability

\* np.random.uniform() < self.terminate_probability
Terminates(draw) == draw < terminate_probability

\* Lines 274-289: the first walk.
Early_first(s, index, draw) ==
  LET possible_walks == check_walks(s.grid, s.x[1], s.y[1])
      s1 == [Log(s, possible_walks) EXCEPT !.u = draw]
      s2 == IF Terminates(draw) THEN [s1 EXCEPT !.colide = TRUE] ELSE s1
  IN IF Len(possible_walks) = 0
     THEN Raise(s2, "IndexError")
     ELSE [Step(s2, s.x[1], s.y[1], choose_uniformly(possible_walks, index))
             EXCEPT !.pc = "loop"]

\* EarlyPops, were the entry of a terminated attempt always kept.
EarlyPops_Never(possible_walks) == FALSE

\* EarlyPops, were the entry of a terminated attempt always popped.
EarlyPops_Always(possible_walks) == TRUE

\* Whether the log entry of a terminated attempt is popped (line 302).
EarlyPops(possible_walks) == Len(possible_walks) = 0

\* Lines 292-319: one iteration of the while loop.
Early_loop(s, index, draw) ==
  LET i == Last(s)[1]
      j == Last(s)[2]
  IN IF i = None
     THEN Raise(s, "TypeError")
     ELSE LET possible_walks == check_walks(s.grid, i, j)
              s1 == [Log(s, possible_walks) EXCEPT !.u = draw]
          IN IF Terminates(draw)
             THEN [(IF EarlyPops(possible_walks) THEN Pop(s1) ELSE s1)
                     EXCEPT !.colide = TRUE]
             ELSE IF Len(possible_walks) = 0
                  THEN [Pop(s1) EXCEPT !.colide = TRUE]
                  ELSE Step(s1, i, j, choose_uniformly(possible_walks, index))

-----------------------------------------------------------------------------
(* The constructors *)

\* SAW.__init__ lines 13-18 and _evolution lines 39-41.
Constructed(n, initial_x, initial_y) ==
  [grid |-> NewGrid(n), k |-> <<>>, x |-> <<initial_x>>, y |-> <<initial_y>>,
   n_steps |-> 0, colide |-> FALSE, n_walks |-> None, pc |-> "first",
   err |-> "none", u |-> None, attempts |-> 0]

\* Initial positions tried: the lattice and one cell beyond it on each side.
Starts(n) == (-1)..n

InitWith(vs, ps) ==
  /\ variant \in vs
  /\ N \in 1..MaxN
  /\ terminate_probability \in (IF variant = "SAW" THEN {0} ELSE ps)
  /\ \E initial_x \in Starts(N), initial_y \in Starts(N) :
       /\ ref = Constructed(N, initial_x, initial_y)
       /\ grid = ref.grid
       /\ k = ref.k
       /\ x = ref.x
       /\ y = ref.y
       /\ n_steps = ref.n_steps
       /\ colide = ref.colide
       /\ n_walks = ref.n_walks
       /\ pc = ref.pc
       /\ err = ref.err
       /\ u = ref.u
       /\ attempts = ref.attempts

Init == InitWith({"SAW", "SAWEarly"}, 0..Scale)

\* The move selections offered to _choose_uniformly at the current position.
Indexes(s) ==
  IF Last(s)[1] = None THEN {0}
  ELSE choose_indexes(check_walks(s.grid, Last(s)[1], Last(s)[2]))

Draws == 0..(Scale - 1)

SAW_evolution_first ==
  /\ variant = "SAW" /\ pc = "first"
  /\ \E index \in Indexes(Self) : Assign(SAW_first(Self, index))
  /\ UNCHANGED <<config, ref>>

SAW_evolution_loop ==
  /\ variant = "SAW" /\ pc = "loop" /\ ~colide
  /\ \E index \in Indexes(Self) : Assign(SAW_loop(Self, index))
  /\ UNCHANGED <<config, ref>>

SAWEarly_evolution_first ==
  /\ variant = "SAWEarly" /\ pc = "first"
  /\ \E index \in Indexes(Self), draw \in Draws :
       Assign(Early_first(Self, index, draw))
  /\ UNCHANGED <<config, ref>>

SAWEarly_evolution_loop ==
  /\ variant = "SAWEarly" /\ pc = "loop" /\ ~colide
  /\ \E index \in Indexes(Self), draw \in Draws :
       Assign(Early_loop(Self, index, draw))
  /\ UNCHANGED <<config, ref>>

\* The while test fails (or the loop was left by break): _evolution returns.
evolution_return ==
  /\ pc = "loop" /\ colide
  /\ Assign(Returned(Self))
  /\ UNCHANGED <<config, ref>>

Next ==
  \/ SAW_evolution_first
  \/ SAW_evolution_loop
  \/ SAWEarly_evolution_first
  \/ SAWEarly_evolution_loop
  \/ evolution_return

Spec == Init /\ [][Next]_vars

\* The constructor runs to its end: no step of it is postponed forever.
FairSpec == Spec /\ WF_vars(Next)

-----------------------------------------------------------------------------
(* SAWEarly with terminate_probability = 0 next to SAW *)

\* The step of SAW's construction from s, given the move selection index.
SAW_next(s, index) ==
  CASE s.pc = "first" -> SAW_first(s, index)
    [] s.pc = "loop" /\ ~s.colide ->
         IF index \in Indexes(s) THEN SAW_loop(s, index) ELSE s
    [] s.pc = "loop" /\ s.colide -> Returned(s)
    [] OTHER -> s

InitEq == InitWith({"SAWEarly"}, {0})

Both_first ==
  /\ pc = "first"
  /\ \E index \in Indexes(Self), draw \in Draws :
       /\ Assign(Early_first(Self, index, draw))
       /\ ref' = SAW_next(ref, index)
  /\ UNCHANGED config

Both_loop ==
  /\ pc = "loop" /\ ~colide
  /\ \E index \in Indexes(Self), draw \in Draws :
       /\ Assign(Early_loop(Self, index, draw))
       /\ ref' = SAW_next(ref, index)
  /\ UNCHANGED config

Both_return ==
  /\ pc = "loop" /\ colide
  /\ Assign(Returned(Self))
  /\ ref' = SAW_next(ref, 0)
  /\ UNCHANGED config

NextEq == Both_first \/ Both_loop \/ Both_return

SpecEq == InitEq /\ [][NextEq]_vars

-----------------------------------------------------------------------------
(* Properties *)

StartInBounds == x[1] \in 0..(N-1) /\ y[1] \in 0..(N-1)

OnLattice(p) == p[1] \in 0..(N-1) /\ p[2] \in 0..(N-1)

\* The positions of the trajectory.
Visited == {<<x[t], y[t]>> : t \in 1..Len(x)}

Abs(a) == IF a < 0 THEN -a ELSE a

\* No neighbour of p is a lattice cell whose value is 0.
Trapped(matrix, p) ==
  \A d \in 1..4 :
    LET t == Targets(p[1], p[2])[d]
    IN ~OnLattice(t) \/ matrix[t] # 0

\* C1: with the start on the lattice, at every point of the construction of
\* either variant no position occurs twice in the trajectory: the number of
\* distinct positions equals the trajectory length.
C1_SelfAvoiding ==
  StartInBounds => Cardinality(Visited) = Len(x) /\ Len(y) = Len(x)

\* A completed walk that has covered a whole lattice of more than one cell.
C1_Witness ==
  StartInBounds /\ pc = "done" /\ N > 1 /\ Len(x) = N * N

\* C2: with the start on the lattice, every position of the trajectory has
\* its row and its column in 0..N-1.
C2_PositionBound ==
  StartInBounds => \A t \in 1..Len(x) : OnLattice(<<x[t], y[t]>>)

\* A step was taken from a cell of column 0 while the cell numpy's index -1
\* reaches in that row is still 0.
C2_Witness ==
  /\ StartInBounds /\ N > 1 /\ Len(x) > 1
  /\ y[1] = 0 /\ Cell(grid, <<x[1], -1>>) = 0

\* C3: in every completed walk, consecutive trajectory entries are positions
\* at Manhattan distance 1.
C3_Adjacent ==
  pc = "done" =>
    \A t \in 1..(Len(x) - 1) :
      /\ x[t+1] # None /\ y[t+1] # None
      /\ Abs(x[t+1] - x[t]) + Abs(y[t+1] - y[t]) = 1

\* C4: with the start on the lattice the evolution reaches its end, having
\* made at most N*N attempts and holding a trajectory of at most N*N
\* positions.
C4_Terminates ==
  StartInBounds =>
    /\ <>(pc = "done")
    /\ [](attempts <= N * N /\ Len(x) <= N * N)

\* C5: a completed SAW stands where no neighbour is a lattice cell of value
\* 0; with the start on the lattice, every neighbour on the lattice is a
\* position of the trajectory.
C5_OnlyWhenTrapped ==
  (variant = "SAW" /\ pc = "done") =>
    /\ Trapped(grid, <<x[Len(x)], y[Len(y)]>>)
    /\ StartInBounds =>
         \A d \in 1..4 :
           LET t == Targets(x[Len(x)], y[Len(y)])[d]
           IN ~OnLattice(t) \/ t \in Visited

\* A completed SAW trapped before it covered the lattice.
C5_Witness ==
  /\ variant = "SAW" /\ pc = "done" /\ StartInBounds
  /\ Len(x) > 1 /\ Len(x) < N * N

\* C6: on a 1x1 lattice from (0,0) the construction ends normally with step
\* count 0, a trajectory of length 1 and an empty log.
C6_OneByOne ==
  (N = 1 /\ x[1] = 0 /\ y[1] = 0 /\ pc # "first") =>
    /\ err = "none"
    /\ pc = "done" => (n_walks = 0 /\ Len(x) = 1 /\ k = <<>>)

\* C7: with terminate_probability = 1.0 a completed SAWEarly (started on
\* the lattice) made one attempt and has step count 0 and a trajectory of
\* length 1.
C7_StopsAtFirstAttempt ==
  (/\ variant = "SAWEarly" /\ terminate_probability = Scale
   /\ StartInBounds /\ pc = "done") =>
    attempts = 1 /\ n_walks = 0 /\ Len(x) = 1

\* C8: an attempt of SAWEarly (started on the lattice) whose draw is below
\* terminate_probability leaves the lattice, the trajectory and the step
\* counter as they were.
C8_TerminationAppliesNoStep ==
  [][(/\ variant = "SAWEarly" /\ StartInBounds
      /\ attempts' = attempts + 1
      /\ u' # None /\ u' < terminate_probability)
     => (grid' = grid /\ x' = x /\ y' = y /\ n_steps' = n_steps)]_vars

\* The fields two instances are compared on (every one but the draw).
Same(s, r) ==
  /\ s.grid = r.grid /\ s.k = r.k /\ s.x = r.x /\ s.y = r.y
  /\ s.n_steps = r.n_steps /\ s.n_walks = r.n_walks
  /\ s.colide = r.colide /\ s.pc = r.pc /\ s.err = r.err
  /\ s.attempts = r.attempts

\* C9: SAWEarly with terminate_probability = 0 and SAW, given the same move
\* selections, hold the same trajectory, lattice, log and step count at every
\* step, and SAWEarly too completes only where it is trapped.
C9_EarlyAtZeroIsSAW ==
  /\ Same(Self, ref)
  /\ pc = "done" => Trapped(grid, <<x[Len(x)], y[Len(y)]>>)

\* Both instances completed after more than one step.
C9_Witness ==
  pc = "done" /\ ref.pc = "done" /\ Len(ref.x) > 2 /\ u # None

\* C10 as stated: on completion (of a walk started on the lattice) the log is
\* as long as the step count.
C10_LogLengthIsStepCount ==
  (StartInBounds /\ pc = "done") => Len(k) = n_walks

\* A completed SAWEarly whose last attempt, not the first, drew below
\* terminate_probability while a legal move existed.
KeptEntry ==
  /\ variant = "SAWEarly" /\ attempts > 1
  /\ u < terminate_probability
  /\ ~Trapped(grid, <<x[Len(x)], y[Len(y)]>>)

\* C10 amended: on completion the log is as long as the step count, except
\* after a termination draw on the second or a later attempt of SAWEarly
\* with a legal move left, where it is one longer.
C10_LogLengthAmended ==
  pc = "done" => Len(k) = n_walks + (IF KeptEntry THEN 1 ELSE 0)

C10_Witness ==
  StartInBounds /\ pc = "done" /\ KeptEntry /\ Len(k) = n_walks + 1 /\ n_walks > 1


\* C11: on completion of either variant no entry of the log is 0 (each is a
\* count between 1 and 4), so every reciprocal is defined.
C11_NoZeroInLog ==
  pc = "done" => \A t \in 1..Len(k) : k[t] \in 1..4

\* A completed SAWEarly whose last attempt drew below terminate_probability
\* where it was trapped: the 0 it logged has been popped.
C11_Witness ==
  /\ variant = "SAWEarly" /\ pc = "done" /\ attempts = Len(k) + 1
  /\ u < terminate_probability
  /\ Trapped(grid, <<x[Len(x)], y[Len(y)]>>)

\* C12: the log of a completed instance of either variant has at least one
\* entry.
C12_LogNotEmpty ==
  pc = "done" => Len(k) >= 1

\* A completed instance whose log holds the entry of the first attempt only.
C12_Witness ==
  pc = "done" /\ StartInBounds /\ Len(k) = 1 /\ attempts = 1


RECURSIVE Product(_)
Product(ks) == IF ks = <<>> THEN 1 ELSE Head(ks) * Product(Tail(ks))

\* C13: trial_probability of a completed instance is the reciprocal of the
\* product of all entries of its log, as an exact fraction; on the log
\* [3,2,1] it is 1/6.
C13_TrialProbability ==
  /\ trial_probability(<<3, 2, 1>>) = <<1, 6>>
  /\ pc = "done" => trial_probability(k) = <<1, Product(k)>>

\* A completed instance with a log of three or more entries, not all 1.
C13_Witness ==
  pc = "done" /\ Len(k) >= 3 /\ Product(k) >= 6 /\ k[1] < Product(k)


\* C14: x and y always have the same length, one more than the step
\* counter; a step of the evolution either appends one position and adds one
\* to the counter or does neither; on completion number_of_walks (n_walks)
\* is the trajectory length minus 1.
C14_StepCountMatchesTrajectory ==
  /\ [](/\ Len(x) = n_steps + 1 /\ Len(y) = Len(x)
        /\ pc = "done" => n_walks = Len(x) - 1)
  /\ [][\/ /\ n_steps' = n_steps + 1
            /\ Len(x') = Len(x) + 1 /\ SubSeq(x', 1, Len(x)) = x
            /\ Len(y') = Len(y) + 1 /\ SubSeq(y', 1, Len(y)) = y
         \/ /\ n_steps' = n_steps /\ x' = x /\ y' = y]_vars

\* A completed instance of two or more steps.
C14_Witness ==
  pc = "done" /\ n_walks >= 2 /\ Len(x) = n_walks + 1


\* C15: once the construction has run from a start off the lattice, it has
\* ended in an error, no cell is tagged and no position has been appended.
C15_StartRejected ==
  (~StartInBounds /\ pc # "first") =>
    pc = "raised" /\ grid = NewGrid(N) /\ Len(x) = 1


\* The neighbour of (i,j) in direction d: 1 left, 2 right, 3 up, 4 down.
Offset(i, j, d) ==
  <<i + (IF d = 4 THEN 1 ELSE IF d = 3 THEN -1 ELSE 0),
    j + (IF d = 2 THEN 1 ELSE IF d = 1 THEN -1 ELSE 0)>>

\* C16: on every lattice reached and for every position (i,j) on it,
\* _check_walks lists exactly the directions whose neighbour is on the
\* lattice and holds 0, in increasing order of their codes, with the
\* neighbours as the parallel list; a negative index never passes, whatever
\* the cell it wraps to.
C16_MoveEnumeration ==
  \A i \in 0..(N-1), j \in 0..(N-1) :
    LET keys == check_walks(grid, i, j)
        values == check_values(grid, i, j)
    IN /\ \A d \in 1..4 :
            (\E t \in 1..Len(keys) : keys[t] = d)
              <=> (OnLattice(Offset(i, j, d)) /\ grid[Offset(i, j, d)] = 0)
       /\ \A t \in 1..(Len(keys) - 1) : keys[t] < keys[t+1]
       /\ Len(values) = Len(keys)
       /\ \A t \in 1..Len(keys) : values[t] = Offset(i, j, keys[t])

\* A lattice whose last column, the one index -1 wraps to, holds both a 0
\* and a tagged cell.
C16_Witness ==
  /\ N > 1
  /\ \E r \in 0..(N-1) : grid[<<r, N-1>>] = 0
  /\ \E r \in 0..(N-1) : grid[<<r, N-1>>] # 0


\* The cells tagged by the walks out of the first t-1 trajectory positions
\* (a walk from row or column N tags nothing, one from -1 tags the cell
\* numpy wraps to).
TaggedBefore(t) ==
  {<<Wrap(x[s]), Wrap(y[s])>> : s \in {r \in 1..(t-1) : x[r] # N /\ y[r] # N}}

\* The number of neighbours of p on the lattice and outside tagged.
FreeNeighbours(p, tagged) ==
  Cardinality({d \in 1..4 : /\ OnLattice(Offset(p[1], p[2], d))
                            /\ Offset(p[1], p[2], d) \notin tagged})

\* C17: the t-th entry of the log is the number of legal directions at the
\* t-th trajectory position on the lattice as the first t-1 walks left it;
\* every attempt appends exactly one entry, the count taken on the lattice
\* before the selection, which only a count of 0 may see popped again; no
\* other step touches the log.
C17_LogContent ==
  /\ [](\A t \in 1..Len(k) :
          k[t] = FreeNeighbours(<<x[t], y[t]>>, TaggedBefore(t)))
  /\ [][IF pc \in {"first", "loop"} /\ ~colide /\ x[Len(x)] # None
        THEN LET c == FreeNeighbours(<<x[Len(x)], y[Len(y)]>>,
                                     {p \in DOMAIN grid : grid[p] # 0})
             IN /\ attempts' = attempts + 1
                /\ k' = Append(k, c) \/ (c = 0 /\ k' = k)
        ELSE k' = k /\ attempts' = attempts]_vars

\* A completed log of three or more entries with both a 1 and a 3 in it.
C17_Witness ==
  /\ pc = "done" /\ Len(k) >= 3
  /\ \E t \in 1..Len(k) : k[t] = 1
  /\ \E t \in 1..Len(k) : k[t] = 3


\* C18: a call of _walk at a position (i,j) on the lattice with direction d
\* leaves a matrix that holds d at (i,j) and is otherwise as before, and
\* returns the neighbour of (i,j) in direction d; so does every walk the
\* evolution takes from a position on the lattice, the cell it arrives at
\* staying as it was.
C18_WalkFrame ==
  /\ [](\A i \in 0..(N-1), j \in 0..(N-1), d \in 1..4 :
          LET m == walk_matrix(grid, i, j, d)
          IN /\ DOMAIN m = DOMAIN grid
             /\ m[<<i, j>>] = d
             /\ \A p \in DOMAIN grid \ {<<i, j>>} : m[p] = grid[p]
             /\ walk_to(i, j, d) = Offset(i, j, d))
  /\ [][(x' # x /\ OnLattice(<<x[Len(x)], y[Len(y)]>>)) =>
          LET from == <<x[Len(x)], y[Len(y)]>>
              to == <<x'[Len(x')], y'[Len(y')]>>
          IN /\ grid'[from] \in 1..4
             /\ to = Offset(from[1], from[2], grid'[from])
             /\ \A p \in DOMAIN grid \ {from} : grid'[p] = grid[p]]_vars

\* Two walks taken from the lattice: the cell left first is tagged, the
\* cell arrived at last is not.
C18_Witness ==
  /\ StartInBounds /\ Len(x) > 2
  /\ grid[<<x[1], y[1]>>] # 0
  /\ grid[<<x[Len(x)], y[Len(y)]>>] = 0


\* C19: on an attempt of SAWEarly (started on the lattice) whose draw is
\* below terminate_probability, the entry just appended is gone again if the
\* count was 0; otherwise it stays as the last entry and no step is taken.
C19_TerminatedAttemptLog ==
  [][(/\ variant = "SAWEarly" /\ StartInBounds
      /\ attempts' = attempts + 1
      /\ u' < terminate_probability)
     => LET c == FreeNeighbours(<<x[Len(x)], y[Len(y)]>>,
                                {p \in DOMAIN grid : grid[p] # 0})
        IN IF c = 0
           THEN k' = k
           ELSE /\ k' = Append(k, c)
                /\ x' = x /\ y' = y /\ n_steps' = n_steps]_vars


\* The cells of the lattice that hold a direction code.
Tagged == {p \in DOMAIN grid : grid[p] # 0}

\* C20: with the start on the lattice, at every point of the evolution the
\* tagged cells are exactly the trajectory positions before the last, each
\* holding the code of the move taken out of it, and the cell of the last
\* position holds 0; on completion the number of tagged cells is the step
\* count.
C20_LatticeIsTrajectory ==
  StartInBounds =>
    /\ \A t \in 1..(Len(x) - 1) :
         /\ grid[<<x[t], y[t]>>] \in 1..4
         /\ Offset(x[t], y[t], grid[<<x[t], y[t]>>]) = <<x[t+1], y[t+1]>>
    /\ Tagged = {<<x[t], y[t]>> : t \in 1..(Len(x) - 1)}
    /\ grid[<<x[Len(x)], y[Len(y)]>>] = 0
    /\ pc = "done" => Cardinality(Tagged) = n_walks

\* A completed walk of three or more steps, with a cell tagged for a move
\* other than left.
C20_Witness ==
  /\ StartInBounds /\ pc = "done" /\ n_walks >= 3
  /\ Cardinality(Tagged) = Len(x) - 1
  /\ \E p \in Tagged : grid[p] > 1

====
